---------------------------- MODULE Spec2Model ----------------------------
(***************************************************************************)
(* A model of github.com/gabstv/httpdigest: the challenge parser, the      *)
(* digest response engine, the probing Transport and the CachedTransport.  *)
(*                                                                         *)
(* Strings are sequences of one-character strings ("auth" is               *)
(* <<"a","u","t","h">>), so that splitting, joining, trimming, quoting     *)
(* and tokenizing are computed character by character as the Go code       *)
(* computes them.                                                          *)
(***************************************************************************)
EXTENDS Integers, Sequences, FiniteSets, TLC

(***************************************************************************)
(* Bounds of the model.                                                    *)
(***************************************************************************)
\* number of goroutines that call RoundTrip on one shared transport
NumCallers == 2
\* round trips of one logical call that the history keeps (it saturates)
MaxSent == 5
\* attempts (the first one and the recursive ones) the history keeps
MaxAttempts == 3
\* pieces a generated qop list has at most
MaxQopPieces == 3

(***************************************************************************)
(* Program constants.                                                      *)
(***************************************************************************)
StatusUnauthorized == 401
StatusOK == 200

(***************************************************************************)
(* strings                                                                 *)
(***************************************************************************)
Empty == << >>

Min(a, b) == IF a < b THEN a ELSE b

\* strings.HasPrefix
HasPrefix(s, p) == Len(s) >= Len(p) /\ SubSeq(s, 1, Len(p)) = p

\* unicode.IsSpace on the characters of the model
IsSpace(ch) == ch \in {" ", "\t", "\n", "\r"}

RECURSIVE TrimLeft(_)
TrimLeft(s) == IF s # Empty /\ IsSpace(Head(s)) THEN TrimLeft(Tail(s)) ELSE s

RECURSIVE TrimRight(_)
TrimRight(s) ==
    IF s # Empty /\ IsSpace(s[Len(s)]) THEN TrimRight(SubSeq(s, 1, Len(s) - 1)) ELSE s

\* a TrimSpace that removes nothing
TrimSpace_None(s) == s

\* strings.TrimSpace
TrimSpace(s) == TrimRight(TrimLeft(s))

\* strings.Join(parts, sep)
RECURSIVE Join(_, _)
Join(parts, sep) ==
    IF parts = << >> THEN Empty
    ELSE IF Len(parts) = 1 THEN parts[1]
    ELSE parts[1] \o sep \o Join(Tail(parts), sep)

\* strings.Split(s, sep) for a one-character separator: the pieces between
\* the separators, in order; Split("", sep) is the single piece "".
RECURSIVE SplitFrom(_, _, _)
SplitFrom(s, sepch, cur) ==
    IF s = Empty THEN << cur >>
    ELSE IF Head(s) = sepch THEN << cur >> \o SplitFrom(Tail(s), sepch, Empty)
    ELSE SplitFrom(Tail(s), sepch, Append(cur, Head(s)))

Split(s, sepch) == SplitFrom(s, sepch, Empty)

\* the characters of a model string, written out as one TLA+ string
RECURSIVE Flat(_)
Flat(s) == IF s = Empty THEN "" ELSE Head(s) \o Flat(Tail(s))

\* the one-letter escapes of Go string literals and the control character
\* each stands for, as one character of the model
SimpleEscapes == {"a", "b", "f", "n", "r", "t", "v"}

EscapeChar(ch) ==
    CASE ch = "n" -> "\n"
      [] ch = "r" -> "\r"
      [] ch = "t" -> "\t"
      [] OTHER -> "\\" \o ch

\* strconv.Quote on the characters of the model: the double quote, the
\* backslash and the control characters are escaped, every other
\* character is kept
RECURSIVE QuoteBody(_)
QuoteBody(s) ==
    IF s = Empty THEN Empty
    ELSE (IF Head(s) \in {"\"", "\\"} THEN << "\\", Head(s) >>
          ELSE IF \E e \in SimpleEscapes : Head(s) = EscapeChar(e)
               THEN << "\\", CHOOSE e \in SimpleEscapes : Head(s) = EscapeChar(e) >>
          ELSE << Head(s) >>)
         \o QuoteBody(Tail(s))

Quote(s) == << "\"" >> \o QuoteBody(s) \o << "\"" >>


(***************************************************************************)
(* strconv.Unquote, as parseDigest uses it (the value starts with a double *)
(* quote).  The strings of the model carry no \x, \u, \U or octal escape:  *)
(* a backslash is followed by a backslash, a quote, one of the one-letter  *)
(* escapes, or a character that makes the literal a syntax error.          *)
(***************************************************************************)
\* the loop of Unquote over UnquoteChar: [err, s]
RECURSIVE UnquoteChars(_, _)
UnquoteChars(s, acc) ==
    IF s = Empty THEN [err |-> FALSE, s |-> acc]
    ELSE IF Head(s) = "\"" THEN [err |-> TRUE, s |-> Empty]
    ELSE IF Head(s) # "\\" THEN UnquoteChars(Tail(s), Append(acc, Head(s)))
    ELSE IF Len(s) <= 1 THEN [err |-> TRUE, s |-> Empty]
    ELSE IF s[2] \in {"\\", "\""} THEN UnquoteChars(Tail(Tail(s)), Append(acc, s[2]))
    ELSE IF s[2] \in SimpleEscapes
         THEN UnquoteChars(Tail(Tail(s)), Append(acc, EscapeChar(s[2])))
    ELSE [err |-> TRUE, s |-> Empty]

Unquote(s) ==
    IF Len(s) < 2 THEN [err |-> TRUE, s |-> Empty]
    ELSE IF s[1] # s[Len(s)] THEN [err |-> TRUE, s |-> Empty]
    ELSE IF s[1] # "\"" THEN [err |-> TRUE, s |-> Empty]
    ELSE LET inner == SubSeq(s, 2, Len(s) - 1)
         IN  IF \E i \in 1..Len(inner) : inner[i] = "\n"
             THEN [err |-> TRUE, s |-> Empty]
             ELSE UnquoteChars(inner, Empty)

(***************************************************************************)
(* The challenge: type WWWAuth, ParseWWWAuthenticate and parseDigest.      *)
(***************************************************************************)
S_Digest == << "D", "i", "g", "e", "s", "t", " " >>
S_realm == << "r", "e", "a", "l", "m" >>
S_domain == << "d", "o", "m", "a", "i", "n" >>
S_nonce == << "n", "o", "n", "c", "e" >>
S_opaque == << "o", "p", "a", "q", "u", "e" >>
S_stale == << "s", "t", "a", "l", "e" >>
S_algorithm == << "a", "l", "g", "o", "r", "i", "t", "h", "m" >>
S_qop == << "q", "o", "p" >>
S_auth == << "a", "u", "t", "h" >>
S_MD5 == << "M", "D", "5" >>
S_MD5sess == << "M", "D", "5", "-", "s", "e", "s", "s" >>

\* keys[k] of a Go map[string]string: the zero value "" for a missing key
MapGet(keys, k) == IF k \in DOMAIN keys THEN keys[k] ELSE Empty

\* keys[k] = v
MapPut(keys, k, v) == [x \in (DOMAIN keys) \cup {k} |-> IF x = k THEN v ELSE keys[x]]

\* a pair value that is stored as written, quotes included
PairValue_Verbatim(val) == TrimSpace(val)

\* the value stored for a finished pair: unquoted when it starts with a
\* double quote (a failed Unquote leaves ""), trimmed otherwise
PairValue(val) ==
    IF HasPrefix(val, << "\"" >>) THEN Unquote(val).s ELSE TrimSpace(val)

\* a tokenizer for which a comma is never inside quotes
InQuotes_Never(st) == FALSE

\* if quote { val.WriteRune(r) } else { ... }, for r == ','
InQuotes(st) == st.quote

\* one rune of the loop of parseDigest; st is
\* [state, quote, backq, key, val, keys]
ParseStep(st, r) ==
    IF st.state = 0
    THEN IF r = "=" THEN [st EXCEPT !.state = 1]
         ELSE [st EXCEPT !.key = Append(st.key, r)]
    ELSE IF r = "\""
         THEN [st EXCEPT !.quote = IF st.backq % 2 = 0 THEN ~st.quote ELSE st.quote,
                         !.val = Append(st.val, r),
                         !.backq = 0]
    ELSE IF r = "\\"
         THEN [st EXCEPT !.backq = st.backq + 1, !.val = Append(st.val, r)]
    ELSE IF r = ","
         THEN IF InQuotes(st)
              THEN [st EXCEPT !.val = Append(st.val, r)]
              ELSE [state |-> 0, quote |-> FALSE, backq |-> 0,
                    key |-> Empty, val |-> Empty,
                    keys |-> MapPut(st.keys, TrimSpace(st.key), PairValue(st.val))]
    ELSE [st EXCEPT !.backq = 0, !.val = Append(st.val, r)]

\* (the singleton sets here and below bind a computed value once)
RECURSIVE ParseLoop(_, _)
ParseLoop(st, s) ==
    IF s = Empty THEN st
    ELSE CHOOSE r \in { ParseLoop(x[1], x[2]) :
                            x \in { << ParseStep(st, Head(s)), Tail(s) >> } } : TRUE

ParseStart ==
    [state |-> 0, quote |-> FALSE, backq |-> 0, key |-> Empty, val |-> Empty,
     keys |-> << >>]

\* the end of parseDigest: a pending pair is stored
ParseFinish(st) ==
    IF st.key # Empty
    THEN MapPut(st.keys, TrimSpace(st.key), PairValue(st.val))
    ELSE st.keys

\* parseDigest(rawDigest): the map of the pairs after the 7 characters of
\* the scheme
parseDigest(rawDigest) ==
    CHOOSE keys \in
        { ParseFinish(st) :
              st \in { ParseLoop(ParseStart, SubSeq(rawDigest, 8, Len(rawDigest))) } } : TRUE

NoChal == [none |-> TRUE]

ErrNil == "nil"
ErrBadChallenge == "bad challenge"

\* the WWWAuth built from the map of pairs
MakeWWWAuth(dkeys) ==
    [Realm |-> MapGet(dkeys, S_realm),
     Domain |-> MapGet(dkeys, S_domain),
     Nonce |-> MapGet(dkeys, S_nonce),
     Opaque |-> MapGet(dkeys, S_opaque),
     Stale |-> MapGet(dkeys, S_stale),
     Algorithm |-> MapGet(dkeys, S_algorithm),
     Qop |-> MapGet(dkeys, S_qop)]

\* a parser without the test for the scheme
ParseWWWAuthenticate_AnyScheme(raw) ==
    CHOOSE r \in
        { [wwwa |-> MakeWWWAuth(dkeys), err |-> ErrNil] :
              dkeys \in { parseDigest(TrimSpace(raw)) } } : TRUE

\* ParseWWWAuthenticate(entry): [wwwa, err]
ParseWWWAuthenticate(raw) ==
    LET entry == TrimSpace(raw)
    IN  IF ~HasPrefix(entry, S_Digest)
        THEN [wwwa |-> NoChal, err |-> ErrBadChallenge]
        ELSE CHOOSE r \in
                 { [wwwa |-> MakeWWWAuth(dkeys), err |-> ErrNil] :
                       dkeys \in { parseDigest(entry) } } : TRUE

(***************************************************************************)
(* The digest response engine: md5hex, newCnonce, WWWAuth.Digest,          *)
(* digestAuth and ha1.                                                     *)
(***************************************************************************)
ErrQop == "digest not implemented"
ErrAlgorithm == "not implemented"

\* md5hex(format, v...) with the arguments joined by ':' as every format of
\* the package does: the hex digest is one symbol that names the hashed
\* text, so that two digests are equal exactly when the texts are
md5hex(parts) ==
    CHOOSE h \in { << "md5(" \o Flat(text) \o ")" >> :
                       text \in { Join(p, << ":" >>) : p \in { parts } } } : TRUE

HexDigits ==
    << "0", "1", "2", "3", "4", "5", "6", "7", "8", "9", "a", "b", "c", "d", "e", "f" >>

\* fmt.Sprintf("%08x", n) for a nonce count below 16
Hex8(n) == << "0", "0", "0", "0", "0", "0", "0", HexDigits[n + 1] >>

\* the values the random source of newCnonce can produce (already encoded)
RandCnonces == { << "r", "1" >>, << "r", "2" >> }

\* an ha1 that computes the MD5 form for every algorithm value
ha1_AnyAlgorithm(a, inp) ==
    [ha1 |-> md5hex(<< inp.Username, a.Realm, inp.Password >>), err |-> ErrNil]

\* a.ha1(inp): [ha1, err]
ha1(a, inp) ==
    IF a.Algorithm \in {Empty, S_MD5}
    THEN [ha1 |-> md5hex(<< inp.Username, a.Realm, inp.Password >>), err |-> ErrNil]
    ELSE IF a.Algorithm = S_MD5sess
    THEN [ha1 |-> md5hex(<< md5hex(<< inp.Username, a.Realm, inp.Password >>),
                            a.Nonce, Hex8(inp.NonceCount) >>),
          err |-> ErrNil]
    ELSE [ha1 |-> Empty, err |-> ErrAlgorithm]

\* "k=" followed by v
Field(k, v) == k \o << "=" >> \o v

\* an opaque field that is written whatever the challenge holds
OpaqueField_Always(a) == << Field(S_opaque, Quote(a.Opaque)) >>

\* if a.Opaque != "" { rvs = append(rvs, "opaque=" + strconv.Quote(a.Opaque)) }
OpaqueField(a) ==
    IF a.Opaque # Empty THEN << Field(S_opaque, Quote(a.Opaque)) >> ELSE << >>

\* a client nonce that is drawn anew for every call
CnonceOf_AlwaysNew(inp, rnd) == rnd

\* cnonce := inp.Cnonce; if cnonce == "" { cnonce = newCnonce() }, with rnd
\* the value newCnonce() returns when it is called
CnonceOf(inp, rnd) == IF inp.Cnonce = Empty THEN rnd ELSE inp.Cnonce

\* a.digestAuth(inp) after h1, err := a.ha1(inp)
digestAuthOf(a, inp, rnd, h1) ==
    LET h2 == md5hex(<< inp.Method, inp.DigestURI >>)
        cnonce == CnonceOf(inp, rnd)
        response == md5hex(<< h1.ha1, a.Nonce, Hex8(inp.NonceCount), cnonce, S_auth, h2 >>)
        rvs == << Field(<< "u", "s", "e", "r", "n", "a", "m", "e" >>, Quote(inp.Username)),
                  Field(S_realm, Quote(a.Realm)),
                  Field(S_nonce, Quote(a.Nonce)),
                  Field(<< "u", "r", "i" >>, Quote(inp.DigestURI)),
                  Field(<< "c", "n", "o", "n", "c", "e" >>, Quote(cnonce)),
                  Field(<< "n", "c" >>, Hex8(inp.NonceCount)),
                  Field(S_qop, S_auth),
                  Field(<< "r", "e", "s", "p", "o", "n", "s", "e" >>, Quote(response)),
                  Field(S_algorithm, Quote(a.Algorithm)) >>
               \o OpaqueField(a)
    IN  IF h1.err # ErrNil
        THEN [auth |-> Empty, err |-> h1.err]
        ELSE CHOOSE r \in { [auth |-> S_Digest \o Join(x, << ",", " " >>), err |-> ErrNil] :
                                x \in { rvs } } : TRUE

\* a.digestAuth(inp)
digestAuth(a, inp, rnd) ==
    CHOOSE r \in { digestAuthOf(a, inp, rnd, h1) : h1 \in { ha1(a, inp) } } : TRUE

\* a comparison of the pieces that ignores surrounding white space
QopOffersAuth_Trimmed(qop) ==
    LET qopsplit == Split(qop, ",")
    IN  \E i \in 1..Len(qopsplit) : TrimSpace(qopsplit[i]) = S_auth

\* the loop of Digest over strings.Split(a.Qop, ","): some piece is "auth"
QopOffersAuth(qop) ==
    LET qopsplit == Split(qop, ",")
    IN  \E i \in 1..Len(qopsplit) : qopsplit[i] = S_auth

\* a Digest that leaves a zero nonce-count as it is
Digest_KeepZeroCount(a, inp, rnd) ==
    IF QopOffersAuth(a.Qop)
    THEN digestAuth(a, inp, rnd)
    ELSE [auth |-> Empty, err |-> ErrQop]

\* a.Digest(inp): [auth, err]
Digest(a, inp, rnd) ==
    LET inp1 == IF inp.NonceCount = 0 THEN [inp EXCEPT !.NonceCount = 1] ELSE inp
    IN  IF QopOffersAuth(a.Qop)
        THEN digestAuth(a, inp1, rnd)
        ELSE [auth |-> Empty, err |-> ErrQop]

(***************************************************************************)
(* The transports.  State of the model:                                    *)
(*   cred       Transport.Username and Transport.Password                  *)
(*   cfg        Transport.Transport (set or nil) and Transport.CnonceGen   *)
(*   authCache  CachedTransport.authCache: key -> stored challenge         *)
(*   srv        the challenge the server of SpecEquiv currently issues     *)
(*   pc, req, loc, ret   per caller: the position in RoundTrip, the        *)
(*              *http.Request, the locals (chal, cached, resp) and the     *)
(*              returned (response, error)                                 *)
(*   hist       per caller, history of the logical call: the request as    *)
(*              passed in, the underlying round trips, the cache           *)
(*              operations and the cached flag of every attempt            *)
(*   dg         input and result of one WWWAuth.Digest call (SpecDigest)   *)
(***************************************************************************)
VARIABLES cred, cfg, authCache, srv, pc, req, loc, ret, hist, dg

vars == << cred, cfg, authCache, srv, pc, req, loc, ret, hist, dg >>
tvars == << cred, cfg, authCache, srv, pc, req, loc, ret, hist >>

Callers == 1..NumCallers

Hosts == { << "h" >>, << "g" >> }

\* the (Username, Password) pairs a transport is given
Creds ==
    { [Username |-> << "a", ",", "b" >>, Password |-> << "c" >>],
      [Username |-> << "a" >>, Password |-> << "b", ",", "c" >>],
      [Username |-> << "a" >>, Password |-> << "c" >>] }

ErrTransportNil == "underlying transport is nil"
ErrCnonceGenNil == "cnounce generator is nil"
ErrGetBody == "GetBody failed"
ErrReadBody == "read of request body failed"
NetErrors == { "connection refused", "connection reset" }

NoResp == [none |-> TRUE]
NoReq == [none |-> TRUE]

\* WWW-Authenticate values a server sends
ChallengeHeader(nonce, qop) ==
    S_Digest \o Field(S_qop, Quote(qop)) \o << "," >> \o Field(S_nonce, Quote(nonce))

Nonces == { << "n", "1" >>, << "n", "2" >> }
S_authint == << "a", "u", "t", "h", "-", "i", "n", "t" >>
Offers ==
    { ChallengeHeader(n, S_auth) : n \in Nonces }
        \cup { ChallengeHeader(<< "n", "1" >>, S_authint) }

Response(status, www) == [StatusCode |-> status, WWW |-> www]

\* what one call of the underlying http.RoundTripper can come back with:
\* an error or a response.  A probe is answered by a 401 with or without a
\* challenge, or by another status (an open resource) with or without one;
\* the answer to an authenticated request is read for its status only
ProbeOutcomes ==
    { [err |-> e, resp |-> NoResp] : e \in NetErrors }
        \cup { [err |-> ErrNil, resp |-> Response(StatusUnauthorized, w)] :
                   w \in Offers \cup {Empty} }
        \cup { [err |-> ErrNil, resp |-> Response(StatusOK, w)] :
                   w \in {Empty, ChallengeHeader(<< "n", "1" >>, S_auth)} }
AuthOutcomes ==
    { [err |-> e, resp |-> NoResp] : e \in NetErrors }
        \cup { [err |-> ErrNil, resp |-> Response(StatusOK, Empty)],
               [err |-> ErrNil,
                resp |-> Response(StatusUnauthorized,
                                  ChallengeHeader(<< "n", "2" >>, S_auth))] }

\* the request bodies a caller passes: none, or a reader of the full
\* content with GetBody unset, working or failing
BodyKinds ==
    { [Body |-> "nil", GetBody |-> "nil"],
      [Body |-> "full", GetBody |-> "ok"],
      [Body |-> "full", GetBody |-> "nil"],
      [Body |-> "full", GetBody |-> "err"] }

S_GET == << "G", "E", "T" >>
S_URI == << "/" >>

\* what the server reads from a request body in the given state
Content(body) ==
    CASE body = "nil" -> "none"
      [] body = "full" -> "full"
      [] OTHER -> "lost"

\* the cache key: strings.Join([]string{host, username, password}, ",")
CacheKey(host, username, password) ==
    Join(<< host, username, password >>, << "," >>)

\* a lookup that never finds what was stored
CacheHas_NeverFound(cache, key) == FALSE

\* val, found := t.authCache.Get(cacheKey); found && val != nil
CacheHas(cache, key) == key \in DOMAIN cache

\* nil checks that look at the underlying transport only
ConfigError_TransportOnly(c) == IF ~c.Transport THEN ErrTransportNil ELSE ErrNil

\* the nil checks at the head of both RoundTrip methods
ConfigError(c) ==
    IF ~c.Transport THEN ErrTransportNil
    ELSE IF c.CnonceGen = "nil" THEN ErrCnonceGenNil
    ELSE ErrNil

\* t.CnonceGen()
S_fixedCnonce == << "c", "n" >>
CnonceGen(c) == IF c.CnonceGen = "fixed" THEN S_fixedCnonce ELSE Empty

\* a retry on every 401, whether or not the challenge came from the cache
IsStale_AnyUnauthorized(status, cached) == status = StatusUnauthorized

\* resp.StatusCode == http.StatusUnauthorized && cached
IsStale(status, cached) == status = StatusUnauthorized /\ cached

\* the body clone of doAuthRequest: [err, Body, clone], where Body is
\* req.Body afterwards and clone is authReq.Body; rd says whether reading
\* a reader that was already consumed and closed succeeds (with no bytes)
CloneBody(r, rd) ==
    IF r.Body = "nil" THEN [err |-> ErrNil, Body |-> "nil", clone |-> "nil"]
    ELSE IF r.GetBody # "nil"
    THEN IF r.GetBody = "err"
         THEN [err |-> ErrGetBody, Body |-> r.Body, clone |-> "nil"]
         ELSE [err |-> ErrNil, Body |-> r.Body, clone |-> "full"]
    ELSE IF r.Body = "spent"
    THEN IF rd
         THEN [err |-> ErrNil, Body |-> "empty", clone |-> "empty"]
         ELSE [err |-> ErrReadBody, Body |-> r.Body, clone |-> "nil"]
    ELSE [err |-> ErrNil, Body |-> r.Body, clone |-> r.Body]

\* doAuthRequest reads the body of a 401 response to its end and closes
\* it; the response of any other status is returned as it came
ProbeBodyClosed(out) ==
    out.err = ErrNil /\ out.resp.StatusCode = StatusUnauthorized

\* history entry of one underlying round trip; closed says whether RoundTrip
\* has closed the body of the response
Sent(probe, authorization, content, out, closed) ==
    [probe |-> probe, Authorization |-> authorization, body |-> content, out |-> out,
     closed |-> closed]

\* the histories saturate at their bounds
Log(s, e, max) == IF Len(s) < max THEN Append(s, e) ELSE s

\* by is history: the (host, username, password) of the request that
\* stored the challenge in use
IdleLoc == [kind |-> "none", chal |-> NoChal, cached |-> FALSE, resp |-> NoResp,
            key |-> Empty, by |-> << >>]
IdleRet == [resp |-> NoResp, err |-> ErrNil]
IdleHist == [req0 |-> NoReq, sent |-> << >>, ops |-> << >>, att |-> << >>]

(***************************************************************************)
(* Steps of a caller.  A RoundTrip method is cut at its cache operations   *)
(* and at its underlying round trips; what runs between two of them is     *)
(* local to the call.                                                      *)
(***************************************************************************)
\* return (resp, err) to the caller
Return(c, resp, err) ==
    /\ pc' = [pc EXCEPT ![c] = "done"]
    /\ ret' = [ret EXCEPT ![c] = [resp |-> resp, err |-> err]]

\* an error returned together with the response received last
ReturnError_WithResponse(c, err) == Return(c, loc[c].resp, err)

\* if err != nil { return nil, err } after an underlying round trip
ReturnError(c, err) == Return(c, NoResp, err)

\* a caller hands a request to Transport.RoundTrip ("probing") or to
\* CachedTransport.RoundTrip ("cached")
Call(c, kind, host, body) ==
    /\ pc[c] = "idle"
    /\ pc' = [pc EXCEPT ![c] = IF kind = "cached" THEN "lookup" ELSE "tprobe"]
    /\ req' = [req EXCEPT ![c] = [Host |-> host, Authorization |-> Empty,
                                  Body |-> body.Body, GetBody |-> body.GetBody]]
    /\ loc' = [loc EXCEPT ![c] = [IdleLoc EXCEPT !.kind = kind]]
    /\ hist' = [hist EXCEPT ![c] = [IdleHist EXCEPT !.req0 = req'[c]]]
    /\ UNCHANGED << cred, cfg, authCache, srv, ret, dg >>

\* CachedTransport.RoundTrip up to the cache lookup: the nil checks, the
\* cache key and authCache.Get
CLookup(c) ==
    /\ pc[c] = "lookup"
    /\ IF ConfigError(cfg) # ErrNil
       THEN /\ Return(c, NoResp, ConfigError(cfg))
            /\ UNCHANGED << loc, hist >>
       ELSE LET key == CacheKey(req[c].Host, cred.Username, cred.Password)
                found == CacheHas(authCache, key)
            IN  /\ loc' = [loc EXCEPT ![c].key = key,
                                      ![c].chal = IF found THEN authCache[key].chal
                                                  ELSE NoChal,
                                      ![c].by = IF found THEN authCache[key].by ELSE << >>,
                                      ![c].cached = found,
                                      ![c].resp = NoResp]
                /\ hist' = [hist EXCEPT ![c].ops = Log(@, "get", MaxSent),
                                        ![c].att = Log(@, found, MaxAttempts)]
                /\ pc' = [pc EXCEPT ![c] = IF found THEN "send" ELSE "probe"]
                /\ UNCHANGED ret
    /\ UNCHANGED << cred, cfg, authCache, srv, req, dg >>

\* t.doAuthRequest(req): the clone, its body, the probe round trip and the
\* draining of a 401 response; next is the position after a response
DoAuthRequest(c, out, rd, next) ==
    LET cl == CloneBody(req[c], rd)
    IN  IF cl.err # ErrNil
        THEN /\ Return(c, NoResp, cl.err)
             /\ req' = [req EXCEPT ![c].Body = cl.Body]
             /\ UNCHANGED << loc, hist >>
        ELSE /\ req' = [req EXCEPT ![c].Body = cl.Body]
             /\ hist' = [hist EXCEPT ![c].sent =
                             Log(@, Sent(TRUE, req[c].Authorization, Content(cl.clone), out,
                                         ProbeBodyClosed(out)),
                                 MaxSent)]
             /\ IF out.err # ErrNil
                THEN /\ ReturnError(c, out.err)
                     /\ UNCHANGED loc
                ELSE /\ loc' = [loc EXCEPT ![c].resp = out.resp]
                     /\ pc' = [pc EXCEPT ![c] = next]
                     /\ UNCHANGED ret

\* the miss path of CachedTransport.RoundTrip: the probe
CProbe(c, out, rd) ==
    /\ pc[c] = "probe"
    /\ DoAuthRequest(c, out, rd, "parse")
    /\ UNCHANGED << cred, cfg, authCache, srv, dg >>

\* the miss path continued: ParseWWWAuthenticate and authCache.Set, which
\* the cache applies or drops
CParse(c, applied) ==
    /\ pc[c] = "parse"
    /\ LET p == ParseWWWAuthenticate(loc[c].resp.WWW)
       IN  IF p.err # ErrNil
           THEN /\ Return(c, NoResp, p.err)
                /\ UNCHANGED << loc, hist, authCache >>
           ELSE /\ loc' = [loc EXCEPT ![c].chal = p.wwwa,
                                     ![c].by = << req[c].Host, cred.Username,
                                                  cred.Password >>]
                /\ authCache' =
                       IF applied
                       THEN [k \in (DOMAIN authCache) \cup {loc[c].key} |->
                                IF k = loc[c].key
                                THEN [chal |-> p.wwwa,
                                      by |-> << req[c].Host, cred.Username, cred.Password >>]
                                ELSE authCache[k]]
                       ELSE authCache
                /\ hist' = [hist EXCEPT ![c].ops = Log(@, "set", MaxSent)]
                /\ pc' = [pc EXCEPT ![c] = "send"]
                /\ UNCHANGED ret
    /\ UNCHANGED << cred, cfg, srv, req, dg >>

\* chal.Digest, req.Header.Set("Authorization", authh) and the round trip
\* of the original request; Transport.RoundTrip returns its response
\* (final), CachedTransport.RoundTrip goes on to look at it
SendAuth(c, rnd, out, chal, final) ==
    LET d == Digest(chal,
                    [DigestURI |-> S_URI, Method |-> S_GET, Cnonce |-> CnonceGen(cfg),
                     Username |-> cred.Username, Password |-> cred.Password,
                     NonceCount |-> 0],
                    rnd)
    IN  IF d.err # ErrNil
        THEN /\ Return(c, NoResp, d.err)
             /\ UNCHANGED << req, loc, hist >>
        ELSE /\ req' = [req EXCEPT ![c].Authorization = d.auth,
                                   ![c].Body = IF @ = "nil" THEN "nil" ELSE "spent"]
             /\ hist' = [hist EXCEPT ![c].sent =
                             Log(@, Sent(FALSE, d.auth, Content(req[c].Body), out, FALSE),
                                 MaxSent)]
             /\ IF out.err # ErrNil
                THEN /\ ReturnError(c, out.err)
                     /\ UNCHANGED loc
                ELSE /\ loc' = [loc EXCEPT ![c].resp = out.resp]
                     /\ IF final
                        THEN Return(c, out.resp, ErrNil)
                        ELSE /\ pc' = [pc EXCEPT ![c] = "check"]
                             /\ UNCHANGED ret

\* CachedTransport.RoundTrip: the authenticated round trip
CSend(c, rnd, out) ==
    /\ pc[c] = "send"
    /\ SendAuth(c, rnd, out, loc[c].chal, FALSE)
    /\ UNCHANGED << cred, cfg, authCache, srv, dg >>

\* a retry that leaves the header on the request
WithoutAuthorization_Kept(r) == r

\* req.Header.Del("Authorization")
WithoutAuthorization(r) == [r EXCEPT !.Authorization = Empty]

\* CachedTransport.RoundTrip after the response: a 401 to a cached
\* challenge deletes the entry, removes the header, renews the body and
\* calls RoundTrip again; any other response is returned
CCheck(c) ==
    /\ pc[c] = "check"
    /\ IF IsStale(loc[c].resp.StatusCode, loc[c].cached)
       THEN /\ authCache' = [k \in (DOMAIN authCache) \ {loc[c].key} |-> authCache[k]]
            /\ hist' = [hist EXCEPT ![c].ops = Log(@, "del", MaxSent)]
            /\ IF req[c].Body # "nil" /\ req[c].GetBody = "err"
               THEN /\ Return(c, NoResp, ErrGetBody)
                    /\ req' = [req EXCEPT ![c] = WithoutAuthorization(@)]
                    /\ UNCHANGED loc
               ELSE /\ req' = [req EXCEPT ![c] =
                                   [WithoutAuthorization(@) EXCEPT
                                        !.Body = IF @ # "nil" /\ req[c].GetBody = "ok"
                                                 THEN "full" ELSE @]]
                    /\ loc' = [loc EXCEPT ![c] = [IdleLoc EXCEPT !.kind = loc[c].kind]]
                    /\ pc' = [pc EXCEPT ![c] = "lookup"]
                    /\ UNCHANGED ret
       ELSE /\ Return(c, loc[c].resp, ErrNil)
            /\ UNCHANGED << authCache, hist, req, loc >>
    /\ UNCHANGED << cred, cfg, srv, dg >>

\* Transport.RoundTrip up to the probe: the nil checks and doAuthRequest
TProbe(c, out, rd) ==
    /\ pc[c] = "tprobe"
    /\ IF ConfigError(cfg) # ErrNil
       THEN /\ Return(c, NoResp, ConfigError(cfg))
            /\ UNCHANGED << req, loc, hist >>
       ELSE DoAuthRequest(c, out, rd, "tsend")
    /\ UNCHANGED << cred, cfg, authCache, srv, dg >>

\* Transport.RoundTrip after the probe: ParseWWWAuthenticate, Digest, the
\* header and the round trip of the original request, whose response is
\* returned
TSend(c, rnd, out) ==
    /\ pc[c] = "tsend"
    /\ LET p == ParseWWWAuthenticate(loc[c].resp.WWW)
       IN  IF p.err # ErrNil
           THEN /\ Return(c, NoResp, p.err)
                /\ UNCHANGED << req, loc, hist >>
           ELSE SendAuth(c, rnd, out, p.wwwa, TRUE)
    /\ UNCHANGED << cred, cfg, authCache, srv, dg >>

\* the caller has the result; the goroutine is free for another call
Finish(c) ==
    /\ pc[c] = "done"
    /\ pc' = [pc EXCEPT ![c] = "idle"]
    /\ req' = [req EXCEPT ![c] = NoReq]
    /\ loc' = [loc EXCEPT ![c] = IdleLoc]
    /\ ret' = [ret EXCEPT ![c] = IdleRet]
    /\ hist' = [hist EXCEPT ![c] = IdleHist]
    /\ UNCHANGED << cred, cfg, authCache, srv, dg >>

(***************************************************************************)
(* Steps of the environment: the owner of the transport changes its        *)
(* fields while no call is in flight, and the cache evicts.                *)
(***************************************************************************)
AllIdle == \A c \in Callers : pc[c] = "idle"

Configs == [Transport : BOOLEAN, CnonceGen : {"nil", "auto", "fixed"}]

\* ts.Username = ..., ts.Password = ...
SetCredentials(cr) ==
    /\ AllIdle
    /\ cr # cred
    /\ cred' = cr
    /\ UNCHANGED << cfg, authCache, srv, pc, req, loc, ret, hist, dg >>

\* t.Transport = ..., t.CnonceGen = ...
SetConfig(cf) ==
    /\ AllIdle
    /\ cf # cfg
    /\ cfg' = cf
    /\ UNCHANGED << cred, authCache, srv, pc, req, loc, ret, hist, dg >>

\* the cache drops an entry under its cost policy
Evict(k) ==
    /\ k \in DOMAIN authCache
    /\ authCache' = [x \in (DOMAIN authCache) \ {k} |-> authCache[x]]
    /\ UNCHANGED << cred, cfg, srv, pc, req, loc, ret, hist, dg >>

EmptyCache == [k \in {} |-> NoChal]

Cleared_Nothing(cache) == cache

\* t.authCache.Clear(): the cache without any of its entries
Cleared(cache) == EmptyCache

\* CachedTransport.ClearCache
ClearCache ==
    /\ authCache # EmptyCache
    /\ authCache' = Cleared(authCache)
    /\ UNCHANGED << cred, cfg, srv, pc, req, loc, ret, hist, dg >>

NoDigest == [none |-> TRUE]

\* New(username, password) and NewCached(username, password)
Init ==
    /\ cred \in Creds
    /\ cfg = [Transport |-> TRUE, CnonceGen |-> "auto"]
    /\ authCache = EmptyCache
    /\ srv = ChallengeHeader(<< "n", "1" >>, S_auth)
    /\ pc = [c \in Callers |-> "idle"]
    /\ req = [c \in Callers |-> NoReq]
    /\ loc = [c \in Callers |-> IdleLoc]
    /\ ret = [c \in Callers |-> IdleRet]
    /\ hist = [c \in Callers |-> IdleHist]
    /\ dg = NoDigest

\* one caller at a time, both transports, any server, a cache that may
\* drop a write and evict
Next ==
    \/ \E kind \in {"probing", "cached"}, b \in BodyKinds :
           Call(1, kind, << "h" >>, b)
    \/ CLookup(1)
    \/ \E out \in ProbeOutcomes, rd \in BOOLEAN : CProbe(1, out, rd)
    \/ \E applied \in BOOLEAN : CParse(1, applied)
    \/ \E rnd \in RandCnonces, out \in AuthOutcomes : CSend(1, rnd, out)
    \/ CCheck(1)
    \/ \E out \in ProbeOutcomes, rd \in BOOLEAN : TProbe(1, out, rd)
    \/ \E rnd \in RandCnonces, out \in AuthOutcomes : TSend(1, rnd, out)
    \/ Finish(1)
    \/ \E cr \in Creds : SetCredentials(cr)
    \/ \E cf \in Configs : SetConfig(cf)
    \/ \E k \in DOMAIN authCache : Evict(k)
    \/ ClearCache

Spec == Init /\ [][Next]_vars

(***************************************************************************)
(* SpecSeq: one caller of CachedTransport.RoundTrip, one request after     *)
(* the other, and a cache that keeps and exposes what was stored (every    *)
(* Set is applied, nothing is evicted).  The owner changes the             *)
(* credentials between requests.                                           *)
(***************************************************************************)
NextSeq ==
    \/ \E b \in BodyKinds : Call(1, "cached", << "h" >>, b)
    \/ CLookup(1)
    \/ \E out \in ProbeOutcomes, rd \in BOOLEAN : CProbe(1, out, rd)
    \/ CParse(1, TRUE)
    \/ \E rnd \in RandCnonces, out \in AuthOutcomes : CSend(1, rnd, out)
    \/ CCheck(1)
    \/ Finish(1)
    \/ \E cr \in Creds : SetCredentials(cr)

SpecSeq == Init /\ [][NextSeq]_vars

\* the entry of the history of round trips is a response with this status
Answered(e) == e.out.err = ErrNil
IsProbe(e) == e.probe /\ e.Authorization = Empty
IsAuthed(e) == ~e.probe /\ e.Authorization # Empty

\* the cache key of the request in flight
KeyOf(c) == CacheKey(req[c].Host, cred.Username, cred.Password)

\* C1, at the return of a call: a call whose lookup missed and that
\* returns a response has sent exactly two round trips, the
\* unauthenticated probe and then the authenticated request; a call whose
\* lookup hit and whose first round trip was answered with a status other
\* than 401 has sent exactly that one authenticated round trip, and no
\* probe, and returns its response.
C1_AtReturn ==
    pc[1] = "done" =>
        /\ (hist[1].att = << FALSE >> /\ ret[1].err = ErrNil) =>
               /\ Len(hist[1].sent) = 2
               /\ IsProbe(hist[1].sent[1])
               /\ IsAuthed(hist[1].sent[2])
        /\ (/\ hist[1].att # << >>
            /\ hist[1].att[1]
            /\ hist[1].sent # << >>
            /\ Answered(hist[1].sent[1])
            /\ hist[1].sent[1].out.resp.StatusCode # StatusUnauthorized) =>
               /\ Len(hist[1].sent) = 1
               /\ IsAuthed(hist[1].sent[1])
               /\ ret[1] = [resp |-> hist[1].sent[1].out.resp, err |-> ErrNil]

\* C1, from one request to the next: a lookup finds an entry exactly when
\* the cache holds one under the key of the request, and then uses the
\* stored challenge; the miss path stores the parsed challenge under that
\* key; a key enters the cache in no other way, and leaves it only when a
\* call deletes the challenge it used and saw rejected.
C1_Step ==
    /\ (pc[1] = "lookup" /\ pc'[1] \in {"probe", "send"}) =>
           /\ loc'[1].cached <=> KeyOf(1) \in DOMAIN authCache
           /\ pc'[1] = "send" <=> KeyOf(1) \in DOMAIN authCache
           /\ KeyOf(1) \in DOMAIN authCache => loc'[1].chal = authCache[KeyOf(1)].chal
    /\ (pc[1] = "parse" /\ pc'[1] = "send") =>
           /\ KeyOf(1) \in DOMAIN authCache'
           /\ authCache'[KeyOf(1)].chal = ParseWWWAuthenticate(loc[1].resp.WWW).wwwa
    /\ \A k \in (DOMAIN authCache') \ (DOMAIN authCache) :
           pc[1] = "parse" /\ k = KeyOf(1)
    /\ \A k \in (DOMAIN authCache) \ (DOMAIN authCache') :
           /\ pc[1] = "check" /\ k = KeyOf(1)
           /\ loc[1].cached /\ loc[1].resp.StatusCode = StatusUnauthorized

RejectedFromCache(c) ==
    /\ hist[c].att # << >>
    /\ hist[c].att[1]
    /\ hist[c].sent # << >>
    /\ Answered(hist[c].sent[1])
    /\ hist[c].sent[1].out.resp.StatusCode = StatusUnauthorized

ConcProbeOutcomes ==
    { [err |-> ErrNil,
       resp |-> Response(StatusUnauthorized, ChallengeHeader(<< "n", "1" >>, S_auth))] }
ConcAuthOutcomes == { o \in AuthOutcomes : o.err = ErrNil }

\* a step of the RoundTrip call of caller c
StepConc(c) ==
    \/ CLookup(c)
    \/ \E out \in ConcProbeOutcomes : CProbe(c, out, TRUE)
    \/ CParse(c, TRUE)
    \/ \E out \in ConcAuthOutcomes : CSend(c, << "r", "1" >>, out)
    \/ CCheck(c)

NextConc ==
    \/ \E c \in Callers : Call(c, "cached", << "h" >>, [Body |-> "nil", GetBody |-> "nil"])
    \/ \E c \in Callers : StepConc(c)
    \/ \E c \in Callers : Finish(c)

InitConc == Init /\ cred = [Username |-> << "a" >>, Password |-> << "c" >>]

SpecConc == InitConc /\ [][NextConc]_vars

SpecConcFair == SpecConc /\ \A c \in Callers : WF_vars(StepConc(c))

\* C2: in every execution, every attempt of a call after the first one (a
\* recursive attempt started by stale-cache detection) runs with cached
\* false, and a call makes at most two attempts.
C2_RetryRunsUncached ==
    \A c \in Callers :
        /\ Len(hist[c].att) <= 2
        /\ \A i \in 2..Len(hist[c].att) : ~hist[c].att[i]

\* C4: every RoundTrip call in flight eventually returns.
C4_EveryCallReturns ==
    \A c \in Callers : (pc[c] \notin {"idle", "done"}) ~> (pc[c] = "done")

(***************************************************************************)
(* Properties of single calls, checked under Spec.                         *)
(***************************************************************************)
\* C5: a call of Transport.RoundTrip whose probe was answered with a status
\* other than 401 returns that probe response, with no error, and has sent
\* no second round trip.
C5_OpenProbeIsFinal ==
    (/\ pc[1] = "done"
     /\ loc[1].kind = "probing"
     /\ hist[1].sent # << >>
     /\ Answered(hist[1].sent[1])
     /\ hist[1].sent[1].out.resp.StatusCode # StatusUnauthorized) =>
        /\ ret[1] = [resp |-> hist[1].sent[1].out.resp, err |-> ErrNil]
        /\ Len(hist[1].sent) = 1

\* C6: a call of CachedTransport.RoundTrip that computes the Authorization
\* header from a cached challenge uses a challenge that was stored by a
\* request with the same (host, username, password) triple.
C6_CachedChallengeIsOwn ==
    \A c \in Callers :
        (pc[c] \in {"send", "check"} /\ loc[c].cached) =>
            loc[c].by = << req[c].Host, cred.Username, cred.Password >>

C9_AtError ==
    /\ \A i \in 1..Len(hist[1].sent) :
           hist[1].sent[i].out.err # ErrNil =>
               /\ i = Len(hist[1].sent)
               /\ pc[1] = "done"
               /\ ret[1] = [resp |-> NoResp, err |-> hist[1].sent[i].out.err]
    /\ pc[1] = "done" => ((ret[1].resp = NoResp) # (ret[1].err = ErrNil))

\* C9, in every step: the step of a round trip that returns an error
\* leaves the cache as it was.
C9_Step ==
    (/\ Len(hist'[1].sent) > Len(hist[1].sent)
     /\ hist'[1].sent[Len(hist'[1].sent)].out.err # ErrNil) =>
        authCache' = authCache

\* C9: the error of an underlying round trip is returned as it is, with no
\* response and no further round trip, and the cache is not touched; a
\* call returns a response or an error, never both.
C9_ErrorsPropagate == []C9_AtError /\ [][C9_Step]_vars

\* C9 witness: CachedTransport.RoundTrip probed, stored the challenge, and
\* its authenticated round trip failed.
C9_Witness ==
    /\ pc[1] = "done"
    /\ loc[1].kind = "cached"
    /\ Len(hist[1].sent) = 2
    /\ hist[1].sent[1].out.err = ErrNil
    /\ hist[1].sent[2].out.err \in NetErrors
    /\ ret[1].err = hist[1].sent[2].out.err
    /\ KeyOf(1) \in DOMAIN authCache

(***************************************************************************)
(* SpecDigest: one call of WWWAuth.Digest on a challenge whose qop is a    *)
(* comma-separated list of up to MaxQopPieces pieces.                      *)
(***************************************************************************)
\* the pieces a server's qop list is made of, with near misses of "auth"
QopPieces ==
    { Empty, S_auth, S_authint, << " " >> \o S_auth, << "A", "u", "t", "h" >> }

QopLists == UNION { [1..n -> QopPieces] : n \in 1..MaxQopPieces }

S_SHA256 == << "S", "H", "A", "-", "2", "5", "6" >>

\* the challenge with the given qop pieces and algorithm
DigestChallenge(pieces, alg) ==
    [Realm |-> << "r" >>, Domain |-> Empty, Nonce |-> << "n", "1" >>, Opaque |-> Empty,
     Stale |-> Empty, Algorithm |-> alg, Qop |-> Join(pieces, << "," >>)]

\* the DigestInput the transports build, with the given NonceCount
DigestInputOf(nc) ==
    [DigestURI |-> S_URI, Method |-> S_GET, Cnonce |-> Empty,
     Username |-> << "a" >>, Password |-> << "c" >>, NonceCount |-> nc]

InitDigest ==
    /\ cred = [Username |-> << "a" >>, Password |-> << "c" >>]
    /\ cfg = [Transport |-> TRUE, CnonceGen |-> "auto"]
    /\ authCache = EmptyCache
    /\ srv = ChallengeHeader(<< "n", "1" >>, S_auth)
    /\ pc = [c \in Callers |-> "idle"]
    /\ req = [c \in Callers |-> NoReq]
    /\ loc = [c \in Callers |-> IdleLoc]
    /\ ret = [c \in Callers |-> IdleRet]
    /\ hist = [c \in Callers |-> IdleHist]
    /\ \E pieces \in QopLists, alg \in {Empty, S_MD5sess, S_SHA256}, nc \in {0, 2} :
           dg = [called |-> FALSE, pieces |-> pieces,
                 a |-> DigestChallenge(pieces, alg), inp |-> DigestInputOf(nc),
                 rnd |-> Empty, out |-> [auth |-> Empty, err |-> ErrNil]]

\* auth, err := a.Digest(inp)
CallDigest(rnd) ==
    /\ ~dg.called
    /\ dg' = [dg EXCEPT !.called = TRUE, !.rnd = rnd, !.out = Digest(dg.a, dg.inp, rnd)]
    /\ UNCHANGED tvars

NextDigest == \E rnd \in RandCnonces : CallDigest(rnd)

SpecDigest == InitDigest /\ [][NextDigest]_vars

\* some piece of the qop list the challenge was built from is exactly auth
AuthOffered == \E i \in 1..Len(dg.pieces) : dg.pieces[i] = S_auth

\* C10: Digest returns the unsupported-qop error and no header value
\* exactly when no piece of the comma-separated qop is the string auth,
\* compared as it is (no trimming, case-sensitive); when some piece is
\* auth the result is that of digestAuth with a nonce count of at least 1,
\* whatever the other pieces are.
C10_QopAuthExactly ==
    dg.called =>
        /\ (dg.out.err = ErrQop) <=> ~AuthOffered
        /\ ~AuthOffered => dg.out.auth = Empty
        /\ AuthOffered =>
               dg.out = digestAuth(dg.a,
                                   [dg.inp EXCEPT !.NonceCount = IF @ = 0 THEN 1 ELSE @],
                                   dg.rnd)

\* C10 witness: a qop list with auth-int and an untrimmed auth is refused.
C10_Witness ==
    /\ dg.called
    /\ dg.pieces = << S_authint, << " " >> \o S_auth >>
    /\ dg.out = [auth |-> Empty, err |-> ErrQop]

(***************************************************************************)
(* SpecEquiv: a single caller sends each request through a                 *)
(* CachedTransport (caller 1) and, against the same server state, through  *)
(* a Transport (caller 2).  The server holds one challenge at a time and   *)
(* answers 200 to a request whose Authorization is a digest of its         *)
(* current challenge with the accepted credentials, 401 with the           *)
(* challenge to any other request; it changes its challenge between        *)
(* requests.  The cache may drop a write and lose an entry at any time.    *)
(***************************************************************************)
\* the account the server accepts
ServerCred == [Username |-> << "a" >>, Password |-> << "c" >>]

\* the Authorization value answers the server's current challenge
Valid(authorization) ==
    /\ authorization # Empty
    /\ LET ch == ParseWWWAuthenticate(srv)
       IN  /\ ch.err = ErrNil
           /\ \E rnd \in RandCnonces :
                  Digest(ch.wwwa,
                         [DigestURI |-> S_URI, Method |-> S_GET, Cnonce |-> Empty,
                          Username |-> ServerCred.Username,
                          Password |-> ServerCred.Password, NonceCount |-> 0],
                         rnd) = [auth |-> authorization, err |-> ErrNil]

\* the server's answer to a request with the given Authorization
ServerAnswer(authorization) ==
    [err |-> ErrNil,
     resp |-> IF Valid(authorization)
              THEN Response(StatusOK, Empty)
              ELSE Response(StatusUnauthorized, srv)]

\* the answers the server can give
ServerAnswers ==
    { [err |-> ErrNil, resp |-> Response(StatusOK, Empty)] }
        \cup { [err |-> ErrNil, resp |-> Response(StatusUnauthorized, w)] : w \in Offers }

\* the bodies of the requests of SpecEquiv
EquivBodies == { b \in BodyKinds : b.GetBody # "err" }

\* the server issues another challenge
ServerChange(w) ==
    /\ AllIdle
    /\ w # srv
    /\ srv' = w
    /\ UNCHANGED << cred, cfg, authCache, pc, req, loc, ret, hist, dg >>

NextEquiv ==
    \/ \E b \in EquivBodies : AllIdle /\ Call(1, "cached", << "h" >>, b)
    \/ CLookup(1)
    \/ \E rd \in BOOLEAN : CProbe(1, ServerAnswer(req[1].Authorization), rd)
    \/ \E applied \in BOOLEAN : CParse(1, applied)
    \/ \E rnd \in RandCnonces, out \in ServerAnswers :
           CSend(1, rnd, out) /\ out = ServerAnswer(req'[1].Authorization)
    \/ CCheck(1)
    \/ pc[1] = "done" /\ Call(2, "probing", << "h" >>,
                              [Body |-> hist[1].req0.Body, GetBody |-> hist[1].req0.GetBody])
    \/ \E rd \in BOOLEAN : TProbe(2, ServerAnswer(req[2].Authorization), rd)
    \/ \E rnd \in RandCnonces, out \in ServerAnswers :
           TSend(2, rnd, out) /\ out = ServerAnswer(req'[2].Authorization)
    \/ pc[2] = "done" /\ Finish(1)
    \/ pc[1] = "idle" /\ Finish(2)
    \/ \E w \in Offers : ServerChange(w)
    \/ \E k \in DOMAIN authCache : Evict(k)
    \/ ClearCache

SpecEquiv == Init /\ [][NextEquiv]_vars

\* what the caller sees of a returned call: the error, or the status
Outcome(r) == IF r.err # ErrNil THEN [err |-> r.err] ELSE [status |-> r.resp.StatusCode]

\* C7: for every request, whatever the cache retained, the call of
\* CachedTransport.RoundTrip and the call of Transport.RoundTrip against
\* the same server state return the same final status or the same error.
C7_SameOutcome ==
    (pc[1] = "done" /\ pc[2] = "done") => Outcome(ret[1]) = Outcome(ret[2])

(***************************************************************************)
(* SpecAlg: one caller of either transport against a server whose          *)
(* challenges offer qop auth and name an algorithm, or none.               *)
(***************************************************************************)
\* the algorithm values of the challenges: the three the package
\* implements, SHA-256, and MD5 in lower case
Algorithms == { Empty, S_MD5, S_MD5sess, S_SHA256, << "m", "d", "5" >> }

\* a WWW-Authenticate value with qop auth and the given algorithm
AlgChallengeHeader(nonce, alg) ==
    ChallengeHeader(nonce, S_auth)
        \o (IF alg = Empty THEN Empty ELSE << "," >> \o Field(S_algorithm, alg))

AlgProbeOutcomes ==
    { [err |-> ErrNil,
       resp |-> Response(StatusUnauthorized, AlgChallengeHeader(<< "n", "1" >>, alg))] :
          alg \in Algorithms }

NextAlg ==
    \/ \E kind \in {"probing", "cached"} :
           Call(1, kind, << "h" >>, [Body |-> "nil", GetBody |-> "nil"])
    \/ CLookup(1)
    \/ \E out \in AlgProbeOutcomes : CProbe(1, out, TRUE)
    \/ CParse(1, TRUE)
    \/ \E rnd \in RandCnonces, out \in AuthOutcomes : CSend(1, rnd, out)
    \/ CCheck(1)
    \/ \E out \in AlgProbeOutcomes : TProbe(1, out, TRUE)
    \/ \E rnd \in RandCnonces, out \in AuthOutcomes : TSend(1, rnd, out)
    \/ Finish(1)

SpecAlg == Init /\ [][NextAlg]_vars

\* the challenge the call of caller c digests, once it has one: the cached
\* or parsed one of CachedTransport.RoundTrip, the one in the probe
\* response of Transport.RoundTrip
HasChallenge(c) ==
    IF loc[c].kind = "cached"
    THEN loc[c].chal # NoChal
    ELSE loc[c].kind = "probing" /\ hist[c].sent # << >> /\ Answered(hist[c].sent[1])
ChallengeOf(c) ==
    IF loc[c].kind = "cached"
    THEN loc[c].chal
    ELSE ParseWWWAuthenticate(hist[c].sent[1].out.resp.WWW).wwwa

Implemented(alg) ==
    alg \in { Empty, << "M", "D", "5" >>, << "M", "D", "5", "-", "s", "e", "s", "s" >> }

\* C11: on a challenge that offers qop auth, Digest returns the
\* unsupported-algorithm error and no header value exactly when the
\* algorithm is none of "", MD5 and MD5-sess; a call of either transport
\* that digests such a challenge returns that error and no response, and
\* has sent no authenticated round trip with it (its last round trip, if
\* any, is the probe).
C11_AlgorithmRefused ==
    (HasChallenge(1) /\ ChallengeOf(1).Qop = S_auth) =>
        LET d == Digest(ChallengeOf(1),
                        [DigestURI |-> S_URI, Method |-> S_GET, Cnonce |-> Empty,
                         Username |-> cred.Username, Password |-> cred.Password,
                         NonceCount |-> 0],
                        << "r", "1" >>)
        IN  /\ (d.err = ErrAlgorithm) <=> ~Implemented(ChallengeOf(1).Algorithm)
            /\ ~Implemented(ChallengeOf(1).Algorithm) => d.auth = Empty
            /\ Implemented(ChallengeOf(1).Algorithm) => d.err = ErrNil /\ d.auth # Empty
            /\ (pc[1] = "done" /\ ~Implemented(ChallengeOf(1).Algorithm)) =>
                   /\ ret[1] = [resp |-> NoResp, err |-> ErrAlgorithm]
                   /\ hist[1].sent = << >> \/ IsProbe(hist[1].sent[Len(hist[1].sent)])
            /\ (pc[1] = "done" /\ ret[1].err = ErrAlgorithm) =>
                   ~Implemented(ChallengeOf(1).Algorithm)

\* C11 witness: CachedTransport.RoundTrip probed, got a SHA-256 challenge
\* and returned the error after that one round trip.
C11_Witness ==
    /\ pc[1] = "done"
    /\ loc[1].kind = "cached"
    /\ loc[1].chal # NoChal
    /\ loc[1].chal.Algorithm = S_SHA256
    /\ Len(hist[1].sent) = 1
    /\ ret[1].err = ErrAlgorithm

\* sub occurs in s
Contains(s, sub) ==
    \E i \in 1..(Len(s) - Len(sub) + 1) : SubSeq(s, i, i + Len(sub) - 1) = sub

S_nc1 == << ",", " ", "n", "c", "=", "0", "0", "0", "0", "0", "0", "0", "1", ",", " " >>

MaxDigestCalls == 2

DetChallenges ==
    { [Realm |-> << "r" >>, Domain |-> Empty, Nonce |-> n, Opaque |-> o,
       Stale |-> Empty, Algorithm |-> alg, Qop |-> q] :
          n \in Nonces, o \in {Empty, << "o" >>}, alg \in {Empty, S_MD5sess, S_SHA256},
          q \in {S_auth, S_authint \o << "," >> \o S_auth} }

DetInputs ==
    { [DigestURI |-> S_URI, Method |-> S_GET, Cnonce |-> cn,
       Username |-> cr.Username, Password |-> cr.Password, NonceCount |-> nc] :
          cn \in {Empty, S_fixedCnonce}, cr \in Creds, nc \in {0, 1, 2} }

InitDet ==
    /\ cred = [Username |-> << "a" >>, Password |-> << "c" >>]
    /\ cfg = [Transport |-> TRUE, CnonceGen |-> "auto"]
    /\ authCache = EmptyCache
    /\ srv = ChallengeHeader(<< "n", "1" >>, S_auth)
    /\ pc = [c \in Callers |-> "idle"]
    /\ req = [c \in Callers |-> NoReq]
    /\ loc = [c \in Callers |-> IdleLoc]
    /\ ret = [c \in Callers |-> IdleRet]
    /\ hist = [c \in Callers |-> IdleHist]
    /\ \E a \in DetChallenges, inp \in DetInputs :
           dg = [a |-> a, inp |-> inp, rnds |-> << >>, outs |-> << >>]

\* one more call a.Digest(inp), the random source giving rnd
CallDigestAgain(rnd) ==
    /\ Len(dg.outs) < MaxDigestCalls
    /\ dg' = [dg EXCEPT !.rnds = Append(@, rnd),
                        !.outs = Append(@, Digest(dg.a, dg.inp, rnd))]
    /\ UNCHANGED tvars

NextDet == \E rnd \in RandCnonces : CallDigestAgain(rnd)

SpecDet == InitDet /\ [][NextDet]_vars

\* C13: calls of Digest with the same challenge and the same DigestInput
\* whose client nonce is not empty return the same header value and the
\* same error, whatever the random source gives and whatever calls came
\* before.
C13_FixedCnonceDeterministic ==
    dg.inp.Cnonce # Empty =>
        \A i, j \in 1..Len(dg.outs) : dg.outs[i] = dg.outs[j]

\* C13 witness: two calls with a supplied client nonce, drawing different
\* random values, returned the same header.
C13_Witness ==
    /\ Len(dg.outs) = 2
    /\ dg.inp.Cnonce # Empty
    /\ dg.rnds[1] # dg.rnds[2]
    /\ dg.outs[1].err = ErrNil
    /\ dg.outs[1].auth # Empty
    /\ dg.outs[1] = dg.outs[2]

\* the positions in s where ", " starts, and the k-th of them (0 and
\* Len(s) + 1 bound the first and the last piece)
SepsOf(s) == { i \in 1..(Len(s) - 1) : s[i] = "," /\ s[i + 1] = " " }
SepAt(s, k) ==
    IF k = 0 THEN -1
    ELSE IF k > Cardinality(SepsOf(s)) THEN Len(s) + 1
    ELSE CHOOSE i \in SepsOf(s) : Cardinality({ j \in SepsOf(s) : j < i }) = k - 1

\* the pieces of s between the occurrences of ", "
FieldsOf(s) ==
    [k \in 1..(Cardinality(SepsOf(s)) + 1) |->
        SubSeq(s, SepAt(s, k - 1) + 2, SepAt(s, k) - 1)]

\* the part of a field before its first '='
NameOf(f) ==
    LET eqs == { i \in 1..Len(f) : f[i] = "=" }
    IN  IF eqs = {} THEN f
        ELSE SubSeq(f, 1, (CHOOSE i \in eqs : \A j \in eqs : i <= j) - 1)

FieldOrder ==
    << "username", "realm", "nonce", "uri", "cnonce", "nc", "qop", "response",
       "algorithm" >>

\* the header value is "Digest " and the nine fields in their order, with
\* qop=auth, and opaque as a tenth field exactly when the challenge has one
WellFormedHeader(auth, opaque) ==
    /\ SubSeq(auth, 1, 7) = << "D", "i", "g", "e", "s", "t", " " >>
    /\ LET fs == FieldsOf(SubSeq(auth, 8, Len(auth)))
       IN  /\ Len(fs) = IF opaque # Empty THEN 10 ELSE 9
           /\ \A i \in 1..9 : Flat(NameOf(fs[i])) = FieldOrder[i]
           /\ fs[7] = << "q", "o", "p", "=", "a", "u", "t", "h" >>
           /\ opaque # Empty =>
                  fs[10] = << "o", "p", "a", "q", "u", "e", "=", "\"" >> \o opaque \o << "\"" >>

\* C14: a successful Digest returns "Digest " followed by username, realm,
\* nonce, uri, cnonce, nc, qop, response, algorithm in this order, joined
\* by ", "; opaque is the last field if and only if the challenge's opaque
\* is not empty; the qop field is auth also when the challenge offered
\* several values.
C14_HeaderFieldOrder ==
    \A i \in 1..Len(dg.outs) :
        dg.outs[i].err = ErrNil => WellFormedHeader(dg.outs[i].auth, dg.a.Opaque)

\* C14 witness: a header for a challenge with an opaque value and the qop
\* list auth-int,auth.
C14_Witness ==
    /\ Len(dg.outs) = 1
    /\ dg.outs[1].err = ErrNil
    /\ dg.a.Opaque # Empty
    /\ dg.a.Qop # S_auth
    /\ WellFormedHeader(dg.outs[1].auth, dg.a.Opaque)

(***************************************************************************)
(* SpecParse: one call of ParseWWWAuthenticate, the loop of parseDigest    *)
(* taken rune by rune.  The raw header values are a scheme prefix          *)
(* followed by realm=<value>, with every <value> of up to MaxValueLen      *)
(* characters over a, space, comma, double quote and backslash, and        *)
(* optionally a further pair ,qop=a.                                       *)
(***************************************************************************)
\* characters of a generated value
MaxValueLen == 5

ValueChars == { "a", " ", ",", "\"", "\\" }

Values == UNION { [1..n -> ValueChars] : n \in 0..MaxValueLen }

\* what a header value starts with
Prefixes ==
    { S_Digest,
      << " " >> \o S_Digest,
      << "d", "i", "g", "e", "s", "t", " " >>,
      << "D", "i", "g", "e", "s", "t" >>,
      << "D", "i", "g", "e", "s", "t", "," >>,
      << "B", "a", "s", "i", "c", " " >>,
      Empty }

\* what follows the first pair
Tails == { Empty, << ",", "q", "o", "p", "=", "a" >> }

RawHeaders ==
    { S_Digest \o S_realm \o << "=" >> \o v \o tl : v \in Values, tl \in Tails }
        \cup { p \o v : p \in Prefixes, v \in { w \in Values : Len(w) <= 2 } }
        \cup { p \o S_realm \o << "=", "a" >> : p \in Prefixes }

InitParse ==
    /\ cred = [Username |-> << "a" >>, Password |-> << "c" >>]
    /\ cfg = [Transport |-> TRUE, CnonceGen |-> "auto"]
    /\ authCache = EmptyCache
    /\ srv = ChallengeHeader(<< "n", "1" >>, S_auth)
    /\ pc = [c \in Callers |-> "idle"]
    /\ req = [c \in Callers |-> NoReq]
    /\ loc = [c \in Callers |-> IdleLoc]
    /\ ret = [c \in Callers |-> IdleRet]
    /\ hist = [c \in Callers |-> IdleHist]
    /\ \E raw \in RawHeaders :
           dg = [raw |-> raw, at |-> "entry", rest |-> Empty, read |-> Empty,
                 st |-> ParseStart, out |-> [wwwa |-> NoChal, err |-> ErrNil]]

\* entry = strings.TrimSpace(entry) and the test of the prefix
ParseEntry ==
    /\ dg.at = "entry"
    /\ LET entry == TrimSpace(dg.raw)
       IN  IF ~HasPrefix(entry, S_Digest)
           THEN dg' = [dg EXCEPT !.at = "returned",
                                 !.out = [wwwa |-> NoChal, err |-> ErrBadChallenge]]
           ELSE dg' = [dg EXCEPT !.at = "loop", !.rest = SubSeq(entry, 8, Len(entry))]
    /\ UNCHANGED tvars

\* one iteration of for _, r := range rawDigest[7:]
ParseRune ==
    /\ dg.at = "loop"
    /\ dg.rest # Empty
    /\ dg' = [dg EXCEPT !.st = ParseStep(dg.st, Head(dg.rest)),
                        !.rest = Tail(dg.rest),
                        !.read = Append(dg.read, Head(dg.rest))]
    /\ UNCHANGED tvars

\* after the loop: the pending pair, the WWWAuth and the return
ParseReturn ==
    /\ dg.at = "loop"
    /\ dg.rest = Empty
    /\ dg' = [dg EXCEPT !.at = "returned",
                        !.out = [wwwa |-> MakeWWWAuth(ParseFinish(dg.st)), err |-> ErrNil]]
    /\ UNCHANGED tvars

NextParse == ParseEntry \/ ParseRune \/ ParseReturn

SpecParse == InitParse /\ [][NextParse]_vars

\* the rune-by-rune run returns what ParseWWWAuthenticate returns
ParseAgrees == dg.at = "returned" => dg.out = ParseWWWAuthenticate(dg.raw)

\* s begins with the literal "Digest "
BeginsWithScheme(s) ==
    Len(s) >= 7 /\ SubSeq(s, 1, 7) = << "D", "i", "g", "e", "s", "t", " " >>

WhiteSpace == { " ", "\t", "\n", "\r" }

\* s is white space, then "Digest ", then something that is not all white
\* space
BeginsWithSchemeAfterSpace(s) ==
    \E k \in 0..Len(s) :
        /\ \A i \in 1..k : s[i] \in WhiteSpace
        /\ Len(s) >= k + 7
        /\ SubSeq(s, k + 1, k + 7) = << "D", "i", "g", "e", "s", "t", " " >>
        /\ \E j \in (k + 8)..Len(s) : s[j] \notin WhiteSpace

\* C15 as claimed: ParseWWWAuthenticate fails, with the bad-challenge
\* error, exactly for the raw values that do not begin with "Digest ".
C15_FailsIffNoScheme ==
    dg.at = "returned" =>
        /\ dg.out.err \in {ErrNil, ErrBadChallenge}
        /\ (dg.out.err = ErrBadChallenge) <=> ~BeginsWithScheme(dg.raw)

\* C15 amended: ParseWWWAuthenticate fails, with the bad-challenge error
\* and no challenge, exactly for the raw values that are not white space
\* followed by "Digest " and at least one later character that is not
\* white space; there is no other failure, and every other raw value
\* yields a challenge.
C15_FailsIffNoSchemeAfterTrim ==
    dg.at = "returned" =>
        /\ dg.out.err \in {ErrNil, ErrBadChallenge}
        /\ (dg.out.err = ErrBadChallenge) <=> ~BeginsWithSchemeAfterSpace(dg.raw)
        /\ (dg.out.err = ErrBadChallenge) <=> (dg.out.wwwa = NoChal)

\* C15 witness: a value with a space in front of Digest was parsed.
C15_Witness ==
    /\ dg.at = "returned"
    /\ dg.raw = << " " >> \o S_Digest \o S_realm \o << "=", "a" >>
    /\ dg.out.err = ErrNil
    /\ dg.out.wwwa.Realm = << "a" >>

\* the raw value is Digest realm= followed by a double quote
QuotedRealm == HasPrefix(dg.raw, S_Digest \o S_realm \o << "=", "\"" >>)

\* what follows realm= in the raw value, the place of its second double
\* quote (0 when there is none), the text between the two quotes and the
\* text after them
AfterRealm == SubSeq(dg.raw, 14, Len(dg.raw))
SecondQuote ==
    LET qs == { i \in 2..Len(AfterRealm) : AfterRealm[i] = "\"" }
    IN  IF qs = {} THEN 0 ELSE CHOOSE i \in qs : \A j \in qs : i <= j
Between == SubSeq(AfterRealm, 2, SecondQuote - 1)
AfterQuotes == SubSeq(AfterRealm, SecondQuote + 1, Len(AfterRealm))

\* C16, on the result: for realm="w" with no backslash in w, alone or
\* followed by ,qop=a, the challenge has the realm w with its commas, the
\* qop is a exactly when the further pair is there, and the map of pairs
\* has no other key.
C16_AtReturn ==
    (/\ dg.at = "returned"
     /\ QuotedRealm
     /\ SecondQuote # 0
     /\ \A i \in 1..Len(Between) : Between[i] # "\\"
     /\ AfterQuotes \in { << >>, << ",", "q", "o", "p", "=", "a" >> }) =>
        /\ dg.out.err = ErrNil
        /\ dg.out.wwwa.Realm = Between
        /\ dg.out.wwwa.Qop = IF AfterQuotes = << >> THEN << >> ELSE << "a" >>
        /\ DOMAIN ParseFinish(dg.st) =
               { << "r", "e", "a", "l", "m" >> }
                   \cup (IF AfterQuotes = << >> THEN {} ELSE { << "q", "o", "p" >> })

\* C16, on the step that reads a ',' in a value: inside quotes the comma
\* is appended to the value and the pair goes on; outside quotes the pair
\* ends, its key is stored and the tokenizer waits for the next key.
C16_Step ==
    (dg.at = "loop" /\ dg'.at = "loop" /\ dg.st.state = 1 /\ Head(dg.rest) = ",") =>
        IF dg.st.quote
        THEN /\ dg'.st.state = 1
             /\ dg'.st.val = Append(dg.st.val, ",")
             /\ dg'.st.key = dg.st.key
             /\ dg'.st.keys = dg.st.keys
        ELSE /\ dg'.st.state = 0
             /\ dg'.st.val = << >>
             /\ dg'.st.key = << >>
             /\ TrimSpace(dg.st.key) \in DOMAIN dg'.st.keys

\* C16: a ',' ends the key=value pair only outside double quotes; inside
\* quotes it is part of the value and starts no further key.
C16_QuotedCommaKept == []C16_AtReturn /\ [][C16_Step]_vars

\* C16 witness: realm="a,a" followed by ,qop=a gave the realm a,a.
C16_Witness ==
    /\ dg.at = "returned"
    /\ dg.raw = S_Digest \o S_realm \o << "=", "\"", "a", ",", "a", "\"" >>
                    \o << ",", "q", "o", "p", "=", "a" >>
    /\ dg.out.wwwa.Realm = << "a", ",", "a" >>
    /\ dg.out.wwwa.Qop = << "a" >>

\* the number of consecutive backslashes at the end of s
TrailingBackslashes(s) ==
    LET ks == { k \in 0..Len(s) : \A i \in (Len(s) - k + 1)..Len(s) : s[i] = "\\" }
    IN  CHOOSE k \in ks : \A j \in ks : j <= k

\* C17, on the step that reads a double quote in a value: the flag is
\* toggled when the number of consecutive backslashes right before the
\* quote is even, and left as it is when that number is odd.
C17_Step ==
    (dg.at = "loop" /\ dg'.at = "loop" /\ dg.st.state = 1 /\ Head(dg.rest) = "\"") =>
        dg'.st.quote = IF TrailingBackslashes(dg.st.val) % 2 = 0
                       THEN ~dg.st.quote
                       ELSE dg.st.quote

\* C17, on the result: realm="a\\" (an escaped backslash, then the closing
\* quote) followed by ,qop=a gives the realm a\ and the qop a.
C17_AtReturn ==
    (/\ dg.at = "returned"
     /\ dg.raw = S_Digest \o S_realm \o << "=", "\"", "a", "\\", "\\", "\"" >>
                     \o << ",", "q", "o", "p", "=", "a" >>) =>
        /\ dg.out.wwwa.Realm = << "a", "\\" >>
        /\ dg.out.wwwa.Qop = << "a" >>

\* C17: a double quote in a value toggles the inside-quotes flag exactly
\* when an even number of backslashes stands right before it; a quoted
\* value that ends with an escaped backslash is closed by the quote after
\* it and the next ',' ends the pair.
C17_QuoteParity == [][C17_Step]_vars /\ []C17_AtReturn

\* the seven fields of a challenge written as Digest key="value", ...
\* with the values quoted and escaped
Serialized(ch) ==
    << "D", "i", "g", "e", "s", "t", " " >>
        \o Join(<< S_realm \o << "=" >> \o Quote(ch.Realm),
                   S_domain \o << "=" >> \o Quote(ch.Domain),
                   S_nonce \o << "=" >> \o Quote(ch.Nonce),
                   S_opaque \o << "=" >> \o Quote(ch.Opaque),
                   S_stale \o << "=" >> \o Quote(ch.Stale),
                   S_algorithm \o << "=" >> \o Quote(ch.Algorithm),
                   S_qop \o << "=" >> \o Quote(ch.Qop) >>,
                << ",", " " >>)

\* C18: the challenge parsed from an accepted header value, written back
\* as Digest key="value", ... and parsed again, is the same challenge in
\* its seven fields.
C18_ParseRoundTrip ==
    (dg.at = "returned" /\ dg.out.err = ErrNil) =>
        ParseWWWAuthenticate(Serialized(dg.out.wwwa)) = [wwwa |-> dg.out.wwwa, err |-> ErrNil]

\* C18 witness: a challenge whose realm is a comma and a double quote came
\* back from the round trip.
C18_Witness ==
    /\ dg.at = "returned"
    /\ dg.out.err = ErrNil
    /\ dg.out.wwwa.Realm = << ",", "\"" >>
    /\ dg.out.wwwa.Qop = << "a" >>
    /\ ParseWWWAuthenticate(Serialized(dg.out.wwwa)).wwwa = dg.out.wwwa

(***************************************************************************)
(* SpecClear: caller 1 sends requests through CachedTransport.RoundTrip,   *)
(* one after the other and without a body, to two hosts and under changing *)
(* credentials, with a cache that keeps what was stored.  Goroutine 2 is   *)
(* the owner of the transport: between two requests it calls ClearCache,   *)
(* and the request that follows is made after that call has returned.      *)
(***************************************************************************)
\* the owner's call of CachedTransport.ClearCache, and its return
OwnerClearCache ==
    /\ AllIdle
    /\ authCache # EmptyCache
    /\ authCache' = Cleared(authCache)
    /\ pc' = [pc EXCEPT ![2] = "done"]
    /\ hist' = [hist EXCEPT ![2].ops = << "clear" >>]
    /\ UNCHANGED << cred, cfg, srv, req, loc, ret, dg >>

NextClear ==
    \/ \E h \in Hosts : Call(1, "cached", h, [Body |-> "nil", GetBody |-> "nil"])
    \/ CLookup(1)
    \/ \E out \in ProbeOutcomes : CProbe(1, out, TRUE)
    \/ CParse(1, TRUE)
    \/ \E out \in AuthOutcomes : CSend(1, << "r", "1" >>, out)
    \/ CCheck(1)
    \/ pc[2] = "idle" /\ Finish(1)
    \/ OwnerClearCache
    \/ pc[1] = "done" /\ Finish(2)
    \/ \E cr \in Creds : SetCredentials(cr)

SpecClear == Init /\ [][NextClear]_vars

\* ClearCache has returned and no request was finished since
AfterClear == pc[2] = "done" /\ hist[2].ops = << "clear" >>

\* C19: after ClearCache has returned with no RoundTrip in flight, the
\* cache holds no challenge until the next RoundTrip stores one, and that
\* RoundTrip, whatever its key, finds no cached challenge at its first
\* lookup and sends the probe before any request with an Authorization
\* header.
C19_ClearedThenProbes ==
    AfterClear =>
        /\ pc[1] \in {"idle", "lookup"} /\ hist[1].att = << >> => authCache = EmptyCache
        /\ hist[1].att # << >> => ~hist[1].att[1]
        /\ \A i \in 1..Len(hist[1].sent) :
               IsAuthed(hist[1].sent[i]) => i > 1 /\ IsProbe(hist[1].sent[1])

\* after a ClearCache the request has probed, authenticated and been
\* answered, and its challenge is in the cache again
C19_Witness ==
    /\ AfterClear
    /\ pc[1] = "done"
    /\ hist[1].att = << FALSE >>
    /\ Len(hist[1].sent) = 2
    /\ IsProbe(hist[1].sent[1])
    /\ IsAuthed(hist[1].sent[2])
    /\ KeyOf(1) \in DOMAIN authCache

(***************************************************************************)
(* SpecShare: one *WWWAuth, created by ParseWWWAuthenticate and stored in  *)
(* the cache, is the chal of the RoundTrip calls of all callers at once.   *)
(* dg.a is the object, dg.parsed (history) its fields when it was created, *)
(* dg.at and dg.outs each caller's position and the result of its Digest.  *)
(***************************************************************************)
\* a Digest that stores the algorithm it used in the challenge
DigestWrites_DefaultsAlgorithm(a, inp) ==
    [a EXCEPT !.Algorithm = IF @ = Empty THEN S_MD5 ELSE @]

\* the fields of *a when a.Digest(inp) returns: Digest, digestAuth and ha1
\* assign to inp.NonceCount, which is the callee's copy, and to no field
\* of a
DigestWrites(a, inp) == a

ShareHeaders == { AlgChallengeHeader(n, alg) : n \in Nonces, alg \in Algorithms }

\* the DigestInput literal of CachedTransport.RoundTrip
ShareInput(cn) ==
    [DigestURI |-> S_URI, Method |-> S_GET, Cnonce |-> cn,
     Username |-> cred.Username, Password |-> cred.Password, NonceCount |-> 0]

InitShare ==
    /\ cred = [Username |-> << "a" >>, Password |-> << "c" >>]
    /\ cfg = [Transport |-> TRUE, CnonceGen |-> "auto"]
    /\ authCache = EmptyCache
    /\ srv = ChallengeHeader(<< "n", "1" >>, S_auth)
    /\ pc = [c \in Callers |-> "idle"]
    /\ req = [c \in Callers |-> NoReq]
    /\ loc = [c \in Callers |-> IdleLoc]
    /\ ret = [c \in Callers |-> IdleRet]
    /\ hist = [c \in Callers |-> IdleHist]
    /\ \E h \in ShareHeaders :
           LET p == ParseWWWAuthenticate(h)
           IN  dg = [a |-> p.wwwa, parsed |-> p.wwwa,
                     at |-> [c \in Callers |-> "idle"],
                     outs |-> [c \in Callers |-> NoDigest]]

\* authCache.Get finds the entry: chal is the stored pointer
ShareGet(c) ==
    /\ dg.at[c] = "idle"
    /\ dg' = [dg EXCEPT !.at[c] = "hit", !.outs[c] = NoDigest]
    /\ UNCHANGED tvars

\* chal.Digest(DigestInput{...}) of caller c
ShareDigest(c, cn, rnd) ==
    /\ dg.at[c] = "hit"
    /\ dg' = [dg EXCEPT !.a = DigestWrites(dg.a, ShareInput(cn)),
                        !.outs[c] = Digest(dg.a, ShareInput(cn), rnd),
                        !.at[c] = "digested"]
    /\ UNCHANGED tvars

\* the rest of RoundTrip, which does not use chal
ShareReturn(c) ==
    /\ dg.at[c] = "digested"
    /\ dg' = [dg EXCEPT !.at[c] = "idle"]
    /\ UNCHANGED tvars

NextShare ==
    \E c \in Callers :
        \/ ShareGet(c)
        \/ \E cn \in {Empty, S_fixedCnonce}, rnd \in RandCnonces : ShareDigest(c, cn, rnd)
        \/ ShareReturn(c)

SpecShare == InitShare /\ [][NextShare]_vars

\* the Authorization value carries the parsed realm, nonce and algorithm
CarriesParsed(auth) ==
    /\ Contains(auth, Field(S_realm, Quote(dg.parsed.Realm)) \o << ",", " " >>)
    /\ Contains(auth, Field(S_nonce, Quote(dg.parsed.Nonce)) \o << ",", " " >>)
    /\ Contains(auth, Field(S_algorithm, Quote(dg.parsed.Algorithm)))

S_Basic == << "B", "a", "s", "i", "c", " ", "x" >>

OpenHeaders ==
    { Empty, S_Basic, ChallengeHeader(<< "n", "1" >>, S_auth),
      << " " >> \o ChallengeHeader(<< "n", "1" >>, S_auth) }

OpenProbeOutcomes ==
    { [err |-> ErrNil, resp |-> Response(s, w)] :
          s \in {StatusUnauthorized, StatusOK}, w \in OpenHeaders }

NoBody == [Body |-> "nil", GetBody |-> "nil"]

NextOpen ==
    \/ \E kind \in {"probing", "cached"} : Call(1, kind, << "h" >>, NoBody)
    \/ CLookup(1)
    \/ \E out \in OpenProbeOutcomes : CProbe(1, out, TRUE)
    \/ CParse(1, TRUE)
    \/ \E rnd \in RandCnonces, out \in AuthOutcomes : CSend(1, rnd, out)
    \/ CCheck(1)
    \/ \E out \in OpenProbeOutcomes : TProbe(1, out, TRUE)
    \/ \E rnd \in RandCnonces, out \in AuthOutcomes : TSend(1, rnd, out)
    \/ Finish(1)
    \/ ClearCache

SpecOpen == Init /\ [][NextOpen]_vars

\* entry i of the round trips of caller 1 is a probe answered with a status
\* other than 401
OpenProbeAt(i) ==
    /\ i \in 1..Len(hist[1].sent)
    /\ hist[1].sent[i].probe
    /\ Answered(hist[1].sent[i])
    /\ hist[1].sent[i].out.resp.StatusCode # StatusUnauthorized

\* the call fails on the probe at entry i: nothing is sent after it, and
\* the call returns the parse error and no response
FailsOnProbe(i) ==
    /\ i = Len(hist[1].sent)
    /\ pc[1] \in {"parse", "tsend", "done"}
    /\ pc[1] = "done" => ret[1] = [resp |-> NoResp, err |-> ErrBadChallenge]

\* C21 as stated: a probe answered with a status other than 401 whose
\* WWW-Authenticate value is absent or does not start with "Digest " makes
\* the call return the bad-challenge error and no response, with no round
\* trip after the probe.
C21_OpenProbeFails ==
    \A i \in 1..Len(hist[1].sent) :
        (OpenProbeAt(i) /\ ~HasPrefix(hist[1].sent[i].out.resp.WWW, S_Digest)) =>
            FailsOnProbe(i)

\* C21 (amended): the same for a WWW-Authenticate value that is absent or,
\* with the white space around it removed, does not start with "Digest ".
C21_OpenProbeFailsAfterTrim ==
    \A i \in 1..Len(hist[1].sent) :
        (OpenProbeAt(i)
         /\ ~HasPrefix(TrimSpace(hist[1].sent[i].out.resp.WWW), S_Digest)) =>
            FailsOnProbe(i)

\* a call of the cached transport has returned the parse error after a
\* 200 probe that carried a header of another scheme
C21_Witness ==
    /\ pc[1] = "done"
    /\ OpenProbeAt(1)
    /\ hist[1].sent[1].out.resp.WWW = S_Basic
    /\ ret[1] = [resp |-> NoResp, err |-> ErrBadChallenge]
    /\ Len(hist[1].sent) = 1
    /\ loc[1].kind = "cached"

\* a step stores a challenge under key k
Stores(k) ==
    /\ k \in DOMAIN authCache'
    /\ k \notin DOMAIN authCache \/ authCache'[k] # authCache[k]

\* C22: every challenge that enters the cache is stored by a call at its
\* parse step and was parsed from a probe response with status 401, so the
\* cache never holds a challenge that came with another status.
C22_CachedFrom401 ==
    [][\A k \in DOMAIN authCache' :
           Stores(k) =>
               /\ pc[1] = "parse"
               /\ authCache'[k].chal = ParseWWWAuthenticate(loc[1].resp.WWW).wwwa
               /\ loc[1].resp.StatusCode = StatusUnauthorized]_vars

\* C23: every underlying round trip of a call whose request has a body was
\* sent with a reader that yields the complete original body, with and
\* without GetBody, on the first attempt and on a stale-cache retry.
C23_BodyComplete ==
    \A c \in Callers :
        (pc[c] # "idle" /\ hist[c].req0.Body # "nil") =>
            \A i \in 1..Len(hist[c].sent) : hist[c].sent[i].body = "full"

\* the Authorization value was computed from the challenge
AuthFrom(auth, chal) ==
    /\ HasPrefix(auth, S_Digest)
    /\ chal # NoChal
    /\ Contains(auth, << ",", " " >> \o Field(S_nonce, Quote(chal.Nonce)) \o << ",", " " >>)

\* C24: of the round trips of one call, every probe went out without an
\* Authorization header, the probe of a stale-cache retry included, and
\* every other round trip carried the Authorization value computed from
\* the challenge of its attempt: the one parsed from the probe just before
\* it, or the cached one when the attempt had no probe.
C24_HeaderOrdering ==
    \A i \in 1..Len(hist[1].sent) :
        LET e == hist[1].sent[i]
        IN  IF e.probe
            THEN e.Authorization = Empty
            ELSE /\ e.Authorization # Empty
                 /\ (i > 1 /\ hist[1].sent[i - 1].probe) =>
                        AuthFrom(e.Authorization,
                                 ParseWWWAuthenticate(hist[1].sent[i - 1].out.resp.WWW).wwwa)
                 /\ (i = Len(hist[1].sent) /\ pc[1] = "check") =>
                        AuthFrom(e.Authorization, loc[1].chal)

\* a stale-cache retry: the request authenticated from the cached challenge
\* n1 was rejected, the probe of the retry went out without the header, and
\* the last request carries the value computed from the new challenge n2
C24_Witness ==
    /\ pc[1] = "done"
    /\ Len(hist[1].sent) = 3
    /\ ~hist[1].sent[1].probe
    /\ Contains(hist[1].sent[1].Authorization, Field(S_nonce, Quote(<< "n", "1" >>)))
    /\ hist[1].sent[2].probe
    /\ hist[1].sent[2].Authorization = Empty
    /\ ~hist[1].sent[3].probe
    /\ Contains(hist[1].sent[3].Authorization, Field(S_nonce, Quote(<< "n", "2" >>)))

(***************************************************************************)
(* SpecRace: two callers of CachedTransport.RoundTrip on one transport,    *)
(* same host and credentials, against the server of SpecEquiv, which       *)
(* accepts exactly the digests of its current challenge.  The server       *)
(* replaces the nonce n1 by n2 at any moment.                              *)
(***************************************************************************)
\* the server's nonce expires
ServerRenew ==
    /\ srv = ChallengeHeader(<< "n", "1" >>, S_auth)
    /\ srv' = ChallengeHeader(<< "n", "2" >>, S_auth)
    /\ UNCHANGED << cred, cfg, authCache, pc, req, loc, ret, hist, dg >>

NextRace ==
    \/ \E c \in Callers : Call(c, "cached", << "h" >>, NoBody)
    \/ \E c \in Callers : CLookup(c)
    \/ \E c \in Callers : CProbe(c, ServerAnswer(req[c].Authorization), TRUE)
    \/ \E c \in Callers : CParse(c, TRUE)
    \/ \E c \in Callers, out \in ServerAnswers :
           CSend(c, << "r", "1" >>, out) /\ out = ServerAnswer(req'[c].Authorization)
    \/ \E c \in Callers : CCheck(c)
    \/ \E c \in Callers : Finish(c)
    \/ ServerRenew

SpecRace == InitConc /\ [][NextRace]_vars

\* caller c takes the step that deletes the entry of key k
Deletes(c, k) ==
    /\ pc[c] = "check"
    /\ pc'[c] # "check"
    /\ k \in DOMAIN authCache
    /\ k \notin DOMAIN authCache'

\* a probe of a call that has returned was answered with the nonce n2,
\* which the server issues last
ProbedLatest ==
    \E c \in Callers, i \in 1..MaxSent :
        /\ i <= Len(hist[c].sent)
        /\ hist[c].sent[i].probe
        /\ hist[c].sent[i].out.resp.WWW = ChallengeHeader(<< "n", "2" >>, S_auth)

\* C25: a stale-cache deletion removes the challenge the deleting call
\* used and saw rejected, never one stored since under the same key; and
\* when all calls have returned, the entry of the key is absent or is the
\* challenge of the latest probe response.
C25_DeletesOwnChallenge ==
    /\ [][\A c \in Callers, k \in DOMAIN authCache :
              Deletes(c, k) => authCache[k].chal = loc[c].chal]_vars
    /\ []((/\ \A c \in Callers : pc[c] = "done"
           /\ ProbedLatest) =>
              \A k \in DOMAIN authCache : authCache[k].chal.Nonce = << "n", "2" >>)

\* an Authorization value can be computed from the challenge
Digestible(chal) ==
    \A rnd \in RandCnonces :
        Digest(chal,
               [DigestURI |-> S_URI, Method |-> S_GET, Cnonce |-> Empty,
                Username |-> cred.Username, Password |-> cred.Password,
                NonceCount |-> 0],
               rnd).err = ErrNil

\* C26: when a call of CachedTransport.RoundTrip that missed the cache has
\* returned the unsupported qop or unsupported algorithm error, its key is
\* still without an entry, and between calls the cache never holds a
\* challenge from which no Authorization value can be computed.
C26_FailedDigestNotCached ==
    /\ (/\ pc[1] = "done"
        /\ loc[1].kind = "cached"
        /\ ret[1].err \in {ErrQop, ErrAlgorithm}) =>
            (hist[1].att = << FALSE >> => KeyOf(1) \notin DOMAIN authCache)
    /\ pc[1] \in {"idle", "done"} =>
           \A k \in DOMAIN authCache : Digestible(authCache[k].chal)

\* C27: when a call has returned, every response it obtained from the
\* underlying transport is the response it returned or has had its body
\* closed: the 401 probe response, a probe response of another status, and
\* the 401 that started a stale-cache retry.
C27_ResponsesClosedOrReturned ==
    \A c \in Callers :
        pc[c] = "done" =>
            \A i \in 1..Len(hist[c].sent) :
                Answered(hist[c].sent[i]) =>
                    \/ hist[c].sent[i].closed
                    \/ /\ i = Len(hist[c].sent)
                       /\ ret[c] = [resp |-> hist[c].sent[i].out.resp, err |-> ErrNil]

=============================================================================
